---- MODULE Spec2Model ----
(***************************************************************************)
(* pianote: the input-to-sound pipeline.                                   *)
(*                                                                         *)
(* Contexts: the audio callback (invoked by the output stream once per     *)
(* period while the stream plays), the hardware MIDI callback thread of    *)
(* each connected MidiSource, and the control thread that owns the Piano   *)
(* (main / the UI) and calls its methods.                                  *)
(***************************************************************************)
EXTENDS Integers, Sequences, FiniteSets, TLC

(* ----------------------------- bounds ---------------------------------- *)
\* input sources ever connected by set_input
MaxSources == 2
\* events ever sent over the channel
MaxSend == 3
\* sound banks ever loaded into the engine (font ids handed out)
MaxFonts == 2

(* --------------------------- the state --------------------------------- *)
VARIABLES
    playing,         \* the device stream is active (play) or suspended (pause)
    apc,             \* audio callback: "idle", "lock", "drain", "render", "dead"
    lock,            \* Mutex<Synth>: "free", "audio", "control"
    poisoned,        \* the mutex was held by a thread that panicked
    queue,           \* mpsc channel: events sent and not yet received
    applied,         \* events handed to Synth::send_midi_message, in order
    engine,          \* engine: the channel state the events set
    drain_start,     \* Len(queue) when the running invocation began to drain
    drained,         \* events applied by the running (or last) invocation
    sent_at_drain_end, \* events ever enqueued when the last drain finished
    piano,           \* "alive", "output_dropped" (stream and rx gone), "dropped"
    input,           \* Piano.input: 0 (None) or the source whose handle it owns
    keyboard_input,  \* Ui.keyboard_input: 0 (Weak::new()) or the source it points to
    live,            \* sources whose handle exists (connection open / Rc alive)
    kind,            \* kind of each source connected so far: "midi" or "ui"
    sent,            \* events each source has sent
    submitted,       \* every event sent over the channel, in the order of the sends
    send_failed,     \* a send hit a closed channel (the sender panics)
    parse_failed,    \* MIDI sources whose callback panicked on a raw message
    ctl,             \* control thread: "idle", "replace", "unload", "sfload", "dead"
    new_input,       \* set_input: the handle connect_input returned, 0 for none
    filename,        \* load_sfont: the file being loaded, "" for none
    ret,             \* [op, res] of the last control call that returned
    sfont_id,        \* Piano.sfont_id: 0 (None) or a font id
    presets_data,    \* Piano.presets_data: [bank, num, font] descriptors
    fonts,           \* engine: the banks it holds, [id, file]
    next_font,       \* engine: the next font id sfload hands out
    program,         \* engine: <<bank, num>> of channel 0
    gain,            \* engine: gain
    device,          \* the output device's supported configurations, in its order
    config,          \* the stream configuration negotiated at construction
    sample_rate      \* engine: the sample rate the synth was constructed at

vars == <<playing, apc, lock, poisoned, queue, applied, engine, drain_start,
          drained, sent_at_drain_end, piano, input, keyboard_input, live, kind,
          sent, submitted, send_failed, parse_failed, ctl, new_input, filename, ret,
          sfont_id, presets_data, fonts,
          next_font, program, gain, device, config, sample_rate>>

audio_vars == <<apc, lock, poisoned, applied, engine, drain_start, drained,
                sent_at_drain_end>>
source_vars == <<input, keyboard_input, live, kind, sent, submitted, parse_failed>>
bank_vars == <<filename, sfont_id, presets_data, fonts, next_font, program>>
output_vars == <<device, config, sample_rate>>

Sources == 1..MaxSources

\* The variants of MidiMessage that Synth::send_midi_message hands to the
\* engine, and some of those it does not.
Handled ==
    {"NoteOff", "NoteOn", "PolyphonicKeyPressure", "ControlChange",
     "ProgramChange", "ChannelPressure", "PitchBendChange", "Reset"}
Unhandled ==
    {"OwnedSysEx", "SongSelect", "TuneRequest", "TimingClock", "Start", "Stop",
     "ActiveSensing"}
Variants == Handled \cup Unhandled

\* The messages a source sends: numbered in its own send order.
MidiMessage == [src : Sources, n : 1..MaxSend, ev : Variants]

\* Result<()> of a backend or device call.
Results == {"Ok", "Err"}

\* Number of events ever enqueued on the channel.
RECURSIVE SumSent(_, _)
SumSent(f, S) ==
    IF S = {} THEN 0
    ELSE LET s == CHOOSE x \in S : TRUE IN f[s] + SumSent(f, S \ {s})

TotalSent == SumSent(sent, Sources)

\* Sources connected so far; the next one set_input connects.
Connected == {s \in Sources : kind[s] # "none"}
NextSource == Cardinality(Connected) + 1

(* ----------------------------- the synth ------------------------------- *)
\* The state of the engine's channel as MIDI calls set it (one key, one
\* controller, values 0 and 1): what fluidlite::Synth::new leaves.
FreshChannel ==
    [note |-> 0, key_pressure |-> 0, cc |-> 0, channel_pressure |-> 0,
     pitch_bend |-> 0]

\* A catch-all arm that takes the message for a reset.
CatchAll_Reset(e) ==
    [state |-> [chan |-> FreshChannel, program |-> <<0, 0>>], res |-> "Ok"]

\* The last arm of the match in send_midi_message, `_ => Ok(())`: no call to
\* the engine.
CatchAll(e) == [state |-> e, res |-> "Ok"]

\* Synth::send_midi_message on the engine state e = [chan, program]: the
\* state it leaves and the Result it returns. note_off fails when the key is
\* not sounding; system_reset re-initialises the channel; every variant
\* without an arm of its own falls to `_ => Ok(())`.
SendMidiMessage(e, variant) ==
    CASE variant = "NoteOff" ->
            IF e.chan.note = 0
            THEN [state |-> e, res |-> "Err"]
            ELSE [state |-> [e EXCEPT !.chan.note = 0], res |-> "Ok"]
      [] variant = "NoteOn" ->
            [state |-> [e EXCEPT !.chan.note = 1], res |-> "Ok"]
      [] variant = "PolyphonicKeyPressure" ->
            [state |-> [e EXCEPT !.chan.key_pressure = 1], res |-> "Ok"]
      [] variant = "ControlChange" ->
            [state |-> [e EXCEPT !.chan.cc = 1], res |-> "Ok"]
      [] variant = "ProgramChange" ->
            [state |-> [e EXCEPT !.program = <<e.program[1], 1>>], res |-> "Ok"]
      [] variant = "ChannelPressure" ->
            [state |-> [e EXCEPT !.chan.channel_pressure = 1], res |-> "Ok"]
      [] variant = "PitchBendChange" ->
            [state |-> [e EXCEPT !.chan.pitch_bend = 1], res |-> "Ok"]
      [] variant = "Reset" ->
            [state |-> [chan |-> FreshChannel, program |-> <<0, 0>>], res |-> "Ok"]
      [] OTHER -> CatchAll(e)

(* ------------------------ the output device ---------------------------- *)
\* configurations a device reports
MaxConfigs == 2

\* cpal::SupportedStreamConfigRange: channels, sample format, and the range
\* of sample rates.
ConfigRanges ==
    {r \in [channels : {1, 2}, sample_format : {"I16", "F32"},
            min_sample_rate : {44100, 48000}, max_sample_rate : {44100, 48000}] :
        r.min_sample_rate <= r.max_sample_rate}

\* device.supported_output_configs(): what a device may report.
Devices == UNION {[1..n -> ConfigRanges] : n \in 0..MaxConfigs}

\* No stream configuration.
NoConfig == [channels |-> 0, sample_rate |-> 0]

\* A negotiation that keeps the last configuration that suits.
RECURSIVE GetOutputConfig_Last(_)
GetOutputConfig_Last(configs) ==
    IF configs = <<>>
    THEN [res |-> "Err", config |-> NoConfig]
    ELSE LET c == configs[Len(configs)] IN
         IF c.channels = 2 /\ c.sample_format = "F32"
         THEN [res |-> "Ok",
               config |-> [channels |-> c.channels, sample_rate |-> c.max_sample_rate]]
         ELSE GetOutputConfig_Last(SubSeq(configs, 1, Len(configs) - 1))

\* AudioOutput::get_output_config: the loop over the supported configurations
\* returns at the first one with 2 channels and F32 samples, taken
\* with_max_sample_rate(); past the loop, it bails.
RECURSIVE GetOutputConfig(_)
GetOutputConfig(configs) ==
    IF configs = <<>>
    THEN [res |-> "Err", config |-> NoConfig]
    ELSE LET c == Head(configs) IN
         IF c.channels = 2 /\ c.sample_format = "F32"
         THEN [res |-> "Ok",
               config |-> [channels |-> c.channels, sample_rate |-> c.max_sample_rate]]
         ELSE GetOutputConfig(Tail(configs))

\* The device the pipeline specifications run on.
DefaultDevice ==
    <<[channels |-> 2, sample_format |-> "F32",
       min_sample_rate |-> 44100, max_sample_rate |-> 48000]>>

(* ------------------------- construction -------------------------------- *)
\* Piano::new: an empty channel, no input, no bank, the synth at gain 1.5
\* (kept in tenths), the stream built and not yet started by play().
Init ==
    /\ playing \in BOOLEAN
    /\ apc = "idle"
    /\ lock = "free"
    /\ poisoned = FALSE
    /\ queue = <<>>
    /\ applied = <<>>
    /\ engine = FreshChannel
    /\ drain_start = 0
    /\ drained = 0
    /\ sent_at_drain_end = 0
    /\ piano = "alive"
    /\ input = 0
    /\ keyboard_input = 0
    /\ live = {}
    /\ kind = [s \in Sources |-> "none"]
    /\ sent = [s \in Sources |-> 0]
    /\ submitted = <<>>
    /\ send_failed = FALSE
    /\ parse_failed = {}
    /\ ctl = "idle"
    /\ new_input = 0
    /\ filename = ""
    /\ ret = [op |-> "new", res |-> "Ok"]
    /\ sfont_id = 0
    /\ presets_data = {}
    /\ fonts = {}
    /\ next_font = 1
    /\ program = <<0, 0>>
    /\ gain = 15
    /\ device = DefaultDevice
    /\ config = GetOutputConfig(device).config
    /\ sample_rate = config.sample_rate

\* Before construction: any device, nothing negotiated, no synth.
ConfigInit ==
    /\ playing = FALSE
    /\ apc = "idle"
    /\ lock = "free"
    /\ poisoned = FALSE
    /\ queue = <<>>
    /\ applied = <<>>
    /\ engine = FreshChannel
    /\ drain_start = 0
    /\ drained = 0
    /\ sent_at_drain_end = 0
    /\ piano = "new"
    /\ input = 0
    /\ keyboard_input = 0
    /\ live = {}
    /\ kind = [s \in Sources |-> "none"]
    /\ sent = [s \in Sources |-> 0]
    /\ submitted = <<>>
    /\ send_failed = FALSE
    /\ parse_failed = {}
    /\ ctl = "idle"
    /\ new_input = 0
    /\ filename = ""
    /\ ret = [op |-> "none", res |-> "Ok"]
    /\ sfont_id = 0
    /\ presets_data = {}
    /\ fonts = {}
    /\ next_font = 1
    /\ program = <<0, 0>>
    /\ gain = 0
    /\ device \in Devices
    /\ config = NoConfig
    /\ sample_rate = 0

\* AudioOutput::new up to the construction of the synth: the configuration is
\* negotiated (its error returned with `?`), then the synth is made at the
\* configuration's sample rate, its gain set to 1.5.
AudioOutputNew ==
    /\ piano = "new"
    /\ LET r == GetOutputConfig(device) IN
          /\ ret' = [op |-> "new", res |-> r.res]
          /\ config' = r.config
          /\ IF r.res = "Ok"
             THEN /\ sample_rate' = r.config.sample_rate
                  /\ gain' = 15
                  /\ piano' = "alive"
             ELSE /\ piano' = "failed"
                  /\ UNCHANGED <<sample_rate, gain>>
    /\ UNCHANGED <<playing, audio_vars, queue, source_vars, send_failed, ctl,
                   new_input, bank_vars, device>>

(* ---------------------------- the channel ------------------------------ *)
\* A sender that puts the message at the front of the channel.
Send_Front(q, message) == <<message>> \o q

\* Sender::send on the clone of input_tx a source holds: the message goes to
\* the back of the channel.
Send(q, message) == Append(q, message)

\* A receiver that hands out the newest message first.
TryRecv_Newest(q) == [message |-> q[Len(q)], rest |-> SubSeq(q, 1, Len(q) - 1)]

\* A receiver that loses the message behind the one it hands out.
TryRecv_Lossy(q) ==
    [message |-> Head(q), rest |-> IF Len(q) > 1 THEN Tail(Tail(q)) ELSE <<>>]

\* Receiver::try_recv on a channel that holds a message: the oldest one.
TryRecv(q) == [message |-> Head(q), rest |-> Tail(q)]

\* A drain that stops after as many messages as were queued when it began.
TryIterEnds_Snapshot == drained >= drain_start

\* A drain over rx.iter(): it never finds the end, it waits for a message.
TryIterEnds_Blocking == FALSE

\* rx.try_iter() ends: try_recv finds the channel empty.
TryIterEnds == queue = <<>>

(* ------------------------ the audio callback --------------------------- *)
\* The device invokes the callback for the next period.
CallbackInvoke ==
    /\ piano = "alive"
    /\ playing
    /\ apc = "idle"
    /\ apc' = "lock"
    /\ UNCHANGED <<playing, lock, poisoned, queue, applied, engine, drain_start,
                   drained, sent_at_drain_end, piano, source_vars, send_failed,
                   ctl, new_input, ret, bank_vars, gain, output_vars>>

\* synth.lock().unwrap(): blocks while a control call holds the mutex, panics
\* when it is poisoned.
CallbackLock ==
    /\ apc = "lock"
    /\ lock = "free"
    /\ IF poisoned
       THEN /\ apc' = "dead"
            /\ UNCHANGED <<lock, drain_start, drained>>
       ELSE /\ apc' = "drain"
            /\ lock' = "audio"
            /\ drain_start' = Len(queue)
            /\ drained' = 0
    /\ UNCHANGED <<playing, poisoned, queue, applied, engine, sent_at_drain_end,
                   piano, source_vars, send_failed, ctl, new_input, ret, bank_vars, gain,
                   output_vars>>

\* One turn of `for message in rx.try_iter()`: try_recv returned a message,
\* send_midi_message is called on it; its error is printed and dropped.
DrainOne ==
    /\ apc = "drain"
    /\ queue # <<>>
    /\ LET message == TryRecv(queue).message
           r == SendMidiMessage([chan |-> engine, program |-> program], message.ev)
       IN  /\ applied' = Append(applied, message)
           /\ queue' = TryRecv(queue).rest
           /\ drained' = drained + 1
           /\ engine' = r.state.chan
           /\ program' = r.state.program
    /\ UNCHANGED <<playing, apc, lock, poisoned, drain_start,
                   sent_at_drain_end, piano, source_vars, send_failed, ctl,
                   new_input, ret, filename, sfont_id, presets_data, fonts,
                   next_font, gain, output_vars>>

\* try_recv found the channel empty: try_iter ends, the loop is left.
DrainEnd ==
    /\ apc = "drain"
    /\ TryIterEnds
    /\ apc' = "render"
    /\ sent_at_drain_end' = TotalSent
    /\ UNCHANGED <<playing, lock, poisoned, queue, applied, engine, drain_start,
                   drained, piano, source_vars, send_failed, ctl, new_input, ret,
                   bank_vars, gain, output_vars>>

\* The closures a stream is built around: the render closure of Piano::new
\* and data_fn of AudioOutput::new.
Callbacks == {"render", "data_fn"}

\* synth.write_samples(data), then the guard is dropped and the callback
\* returns. The render closure prints an error; data_fn expect()s, so an
\* error panics the audio thread with the guard held (the mutex is poisoned).
\* A stream runs one closure for its whole life; the two differ in this step
\* alone, and a closure that has printed an error is in the state of one that
\* met none, so which one runs is settled here.
Render ==
    /\ apc = "render"
    /\ \E res \in Results, callback \in Callbacks :
          IF res = "Err" /\ callback = "data_fn"
          THEN /\ apc' = "dead"
               /\ poisoned' = TRUE
          ELSE /\ apc' = "idle"
               /\ UNCHANGED poisoned
    /\ lock' = "free"
    /\ drain_start' = 0
    /\ drained' = 0
    /\ sent_at_drain_end' = 0
    /\ UNCHANGED <<playing, queue, applied, engine, piano, source_vars,
                   send_failed, ctl, new_input, ret, bank_vars, gain,
                   output_vars>>

(* ----------------------------- the stream ------------------------------ *)
\* A play that suspends a stream that is active.
Play_Toggle ==
    /\ piano = "alive"
    /\ ctl = "idle"
    /\ playing' = ~playing
    /\ ret' = [op |-> "play", res |-> "Ok"]
    /\ UNCHANGED <<audio_vars, queue, piano, source_vars, send_failed,
                   ctl, new_input, bank_vars, gain, output_vars>>

\* Piano::play / Piano::pause -> AudioOutput::play / pause: the device call's
\* error is returned to the caller with `?`.
Play ==
    /\ piano = "alive"
    /\ ctl = "idle"
    /\ \E res \in Results :
          /\ playing' = IF res = "Ok" THEN TRUE ELSE playing
          /\ ret' = [op |-> "play", res |-> res]
    /\ UNCHANGED <<audio_vars, queue, piano, source_vars, send_failed,
                   ctl, new_input, bank_vars, gain, output_vars>>

Pause ==
    /\ piano = "alive"
    /\ ctl = "idle"
    /\ \E res \in Results :
          /\ playing' = IF res = "Ok" THEN FALSE ELSE playing
          /\ ret' = [op |-> "pause", res |-> res]
    /\ UNCHANGED <<audio_vars, queue, piano, source_vars, send_failed,
                   ctl, new_input, bank_vars, gain, output_vars>>

(* ------------------------------ inputs --------------------------------- *)
\* The raw messages the MIDI driver hands to the callback: the bytes of a
\* note on, of a note off, of a timing clock and of a system exclusive
\* message, and bytes that are no MIDI message.
RawData == {"NoteOn", "NoteOff", "TimingClock", "SysEx", "malformed"}

\* wmidi::MidiMessage::try_from(data): the variant the bytes parse to.
TryFrom(data) ==
    IF data = "malformed"
    THEN [res |-> "Err", variant |-> "none"]
    ELSE [res |-> "Ok", variant |-> data]

\* message.drop_unowned_sysex(): None for a system exclusive message, which
\* try_from parses borrowing the bytes; the message itself otherwise.
DropUnownedSysex(variant) == IF variant = "SysEx" THEN "None" ELSE variant

\* The callback of a connected MidiSource, on the MIDI driver's thread, given
\* a raw message: try_from(data).expect(..) panics on bytes that do not parse,
\* and queue.send(message).expect(..) panics once the receiver is gone. A
\* callback that has panicked delivers nothing more.
MidiSend(s, data) ==
    /\ s \in live
    /\ kind[s] = "midi"
    /\ s \notin parse_failed
    /\ ~send_failed
    /\ IF TryFrom(data).res = "Err"
       THEN /\ parse_failed' = parse_failed \cup {s}
            /\ UNCHANGED <<queue, sent, submitted, send_failed>>
       ELSE IF DropUnownedSysex(TryFrom(data).variant) = "None"
       THEN UNCHANGED <<queue, sent, submitted, send_failed, parse_failed>>
       ELSE IF piano = "alive"
       THEN /\ TotalSent < MaxSend
            /\ LET message == [src |-> s, n |-> sent[s] + 1,
                               ev |-> DropUnownedSysex(TryFrom(data).variant)]
               IN  /\ queue' = Send(queue, message)
                   /\ submitted' = Append(submitted, message)
            /\ sent' = [sent EXCEPT ![s] = @ + 1]
            /\ UNCHANGED <<send_failed, parse_failed>>
       ELSE /\ send_failed' = TRUE
            /\ UNCHANGED <<queue, sent, submitted, parse_failed>>
    /\ UNCHANGED <<playing, audio_vars, piano, input, keyboard_input,
                   live, kind, ctl, new_input, ret, bank_vars, gain,
                   output_vars>>

\* Weak::upgrade on Ui.keyboard_input: the source it yields, 0 for None.
Upgrade(weak, alive) == IF weak \in alive THEN weak ELSE 0

\* The key messages of the UI and the MIDI message Ui::update makes of each.
KeyMessages == {"KeyNoteOn", "KeyNoteOff"}
KeyEvent(key) == IF key = "KeyNoteOn" THEN "NoteOn" ELSE "NoteOff"

\* Ui::update(KeyNoteOn | KeyNoteOff), on the thread that owns the Piano: the
\* message is sent when the Weak handle upgrades.
UiSend(key) ==
    /\ piano = "alive"
    /\ ctl = "idle"
    /\ LET s == Upgrade(keyboard_input, live) IN
          /\ s # 0
          /\ TotalSent < MaxSend
          /\ LET message == [src |-> s, n |-> sent[s] + 1, ev |-> KeyEvent(key)]
             IN  /\ queue' = Send(queue, message)
                 /\ submitted' = Append(submitted, message)
          /\ sent' = [sent EXCEPT ![s] = @ + 1]
    /\ UNCHANGED <<playing, audio_vars, piano, input, keyboard_input,
                   live, kind, send_failed, parse_failed, ctl, new_input, ret,
                   bank_vars, gain, output_vars>>

\* A set_input that takes the attached input out of its slot, dropping it,
\* before it connects the new one.
SetInputConnect_TakeFirst(k) ==
    /\ piano = "alive"
    /\ ctl = "idle"
    /\ input' = 0
    /\ \/ /\ k = "midi"
          /\ ret' = [op |-> "set_input", res |-> "Err"]
          /\ live' = live \ {input}
          /\ UNCHANGED <<kind, keyboard_input, ctl, new_input>>
       \/ /\ NextSource <= MaxSources
          /\ live' = (live \ {input}) \cup {NextSource}
          /\ kind' = [kind EXCEPT ![NextSource] = k]
          /\ keyboard_input' = IF k = "ui" THEN NextSource ELSE keyboard_input
          /\ ctl' = "replace"
          /\ new_input' = NextSource
          /\ UNCHANGED ret
    /\ UNCHANGED <<playing, audio_vars, queue, piano, sent, submitted,
                   send_failed, parse_failed, bank_vars, gain, output_vars>>

\* Piano::set_input, first half: input.connect_input(self.input_tx.clone())?.
\* A MIDI input may fail to connect (no port, port not found, connect error);
\* the UI input always connects and points keyboard_input at the new handle.
SetInputConnect(k) ==
    /\ piano = "alive"
    /\ ctl = "idle"
    /\ \/ /\ k = "midi"
          /\ ret' = [op |-> "set_input", res |-> "Err"]
          /\ UNCHANGED <<live, kind, keyboard_input, ctl, new_input>>
       \/ /\ NextSource <= MaxSources
          /\ live' = live \cup {NextSource}
          /\ kind' = [kind EXCEPT ![NextSource] = k]
          /\ keyboard_input' = IF k = "ui" THEN NextSource ELSE keyboard_input
          /\ ctl' = "replace"
          /\ new_input' = NextSource
          /\ UNCHANGED ret
    /\ UNCHANGED <<playing, audio_vars, queue, piano, input, sent, submitted,
                   send_failed, parse_failed, bank_vars, gain, output_vars>>

\* A replace that keeps the old handle alive.
DropHandle_Kept(alive, old) == alive

\* Option::replace: the handles that exist once `old` has been dropped.
DropHandle(alive, old) == alive \ {old}

\* Piano::set_input, second half: self.input.replace(new) and the drop of the
\* handle it returns.
SetInputReplace ==
    /\ ctl = "replace"
    /\ input' = new_input
    /\ live' = DropHandle(live, input)
    /\ ctl' = "idle"
    /\ new_input' = 0
    /\ ret' = [op |-> "set_input", res |-> "Ok"]
    /\ UNCHANGED <<playing, audio_vars, queue, piano, keyboard_input,
                   kind, sent, submitted, send_failed, parse_failed, bank_vars,
                   gain, output_vars>>

(* ----------------------------- teardown -------------------------------- *)
\* Drop of the Piano, field by field in declaration order. `output` goes
\* first: the stream stops and its closure, which owns rx, is destroyed with
\* whatever the channel still holds.
DropOutput ==
    /\ piano = "alive"
    /\ ctl \in {"idle", "dead"}
    /\ apc \in {"idle", "dead"}
    /\ piano' = "output_dropped"
    /\ playing' = FALSE
    /\ queue' = <<>>
    /\ UNCHANGED <<audio_vars, source_vars, send_failed, ctl, new_input, ret,
                   bank_vars, gain, output_vars>>

\* Then input_tx and `input`: the attached source is disconnected.
DropInput ==
    /\ piano = "output_dropped"
    /\ piano' = "dropped"
    /\ input' = 0
    /\ live' = DropHandle(live, input)
    /\ UNCHANGED <<playing, audio_vars, queue, keyboard_input, kind,
                   sent, submitted, send_failed, parse_failed, ctl, new_input,
                   ret, bank_vars, gain, output_vars>>

(* ------------------------- the sound banks ----------------------------- *)
\* The files load_sfont is called with, and the presets each one defines.
\* Bank 128 is where SoundFont files keep their percussion presets.
SoundFonts == {"a.sf2", "b.sf2", "missing.sf2"}

FilePresets(f) ==
    CASE f = "a.sf2" -> {[bank |-> 0, num |-> 0, name |-> "Piano"],
                         [bank |-> 128, num |-> 0, name |-> "Drums"]}
      [] f = "b.sf2" -> {[bank |-> 0, num |-> 0, name |-> "Organ"],
                         [bank |-> 0, num |-> 1, name |-> "Flute"]}
      [] OTHER -> {}

\* The presets set_active_preset is called with.
PresetArgs == {<<0, 0>>, <<0, 1>>, <<1, 0>>, <<128, 0>>}

\* The gains set_gain is called with, in tenths.
Gains == {5, 15}

\* synth.sfload(filename, true): a font id for a file the backend accepts.
SfLoad(f) == IF FilePresets(f) # {} THEN "Ok" ELSE "Err"

\* synth.get_sfont_by_id(id): the file behind a font the engine holds.
FontFile(fs, id) == (CHOOSE r \in fs : r.id = id).file

\* The last bank and program number the 128 x 128 probe asks for.
ProbeMax == 127

\* The probe of load_sfont: sfont.get_preset(bank, num) for every pair of the
\* grid, keeping the presets the font defines.
Probe(f) ==
    {d \in FilePresets(f) : d.bank \in 0..ProbeMax /\ d.num \in 0..ProbeMax}

\* synth.program_select(0, sfont_id, bank, num): fails when the font does not
\* define the preset.
ProgramSelect(fs, id, preset) ==
    IF /\ \E r \in fs : r.id = id
       /\ \E d \in FilePresets(FontFile(fs, id)) :
             d.bank = preset[1] /\ d.num = preset[2]
    THEN "Ok" ELSE "Err"

\* self.synth.lock().unwrap() of a control call: the thread panics on a
\* poisoned mutex.
ControlLock == IF poisoned THEN "dead" ELSE "idle"

\* A set_gain that returns without having set the engine's gain.
SetGain_Deferred(g) ==
    /\ piano = "alive"
    /\ ctl = "idle"
    /\ lock = "free"
    /\ ~poisoned
    /\ ret' = [op |-> "set_gain", res |-> "Ok"]
    /\ UNCHANGED <<playing, audio_vars, queue, piano, source_vars,
                   send_failed, ctl, new_input, bank_vars, gain, output_vars>>

\* Piano::set_gain
SetGain(g) ==
    /\ piano = "alive"
    /\ ctl = "idle"
    /\ lock = "free"
    /\ ctl' = ControlLock
    /\ IF poisoned
       THEN UNCHANGED <<gain, ret>>
       ELSE /\ gain' = g
            /\ ret' = [op |-> "set_gain", res |-> "Ok"]
    /\ UNCHANGED <<playing, audio_vars, queue, piano, source_vars,
                   send_failed, new_input, bank_vars, output_vars>>

\* A load_sfont that goes on without waiting for the lock.
LoadSfontLock_NoWait(f) ==
    /\ piano = "alive"
    /\ ctl = "idle"
    /\ SfLoad(f) = "Ok" => next_font <= MaxFonts
    /\ ~poisoned
    /\ ctl' = IF sfont_id # 0 THEN "unload" ELSE "sfload"
    /\ lock' = "control"
    /\ filename' = f
    /\ UNCHANGED <<playing, apc, poisoned, queue, applied, engine, drain_start,
                   drained, sent_at_drain_end, piano, source_vars, send_failed,
                   new_input, ret, sfont_id, presets_data, fonts, next_font,
                   program, gain, output_vars>>

\* Piano::load_sfont, the lock taken at its first line and held to its end.
LoadSfontLock(f) ==
    /\ piano = "alive"
    /\ ctl = "idle"
    /\ lock = "free"
    /\ SfLoad(f) = "Ok" => next_font <= MaxFonts
    /\ IF poisoned
       THEN /\ ctl' = "dead"
            /\ UNCHANGED <<lock, filename>>
       ELSE /\ ctl' = IF sfont_id # 0 THEN "unload" ELSE "sfload"
            /\ lock' = "control"
            /\ filename' = f
    /\ UNCHANGED <<playing, apc, poisoned, queue, applied, engine, drain_start,
                   drained, sent_at_drain_end, piano, source_vars, send_failed,
                   new_input, ret, sfont_id, presets_data, fonts, next_font,
                   program, gain, output_vars>>

\* synth.sfunload(sfont_id, true)?; self.sfont_id = None; an error of
\* sfunload returns from load_sfont before the assignment.
LoadSfontUnload ==
    /\ ctl = "unload"
    /\ \E res \in Results :
          /\ sfont_id' = IF res = "Ok" THEN 0 ELSE sfont_id
          /\ IF res = "Ok"
             THEN /\ fonts' = {r \in fonts : r.id # sfont_id}
                  /\ ctl' = "sfload"
                  /\ UNCHANGED <<lock, filename, ret>>
             ELSE /\ ret' = [op |-> "load_sfont", res |-> "Err"]
                  /\ ctl' = "idle"
                  /\ lock' = "free"
                  /\ filename' = ""
                  /\ UNCHANGED fonts
    /\ UNCHANGED <<playing, apc, poisoned, queue, applied, engine, drain_start,
                   drained, sent_at_drain_end, piano, source_vars, send_failed,
                   new_input, presets_data, next_font, program, gain,
                   output_vars>>

\* synth.sfload(filename, true)?, the probe, and the update of the fields; an
\* error of sfload returns before any field is assigned.
LoadSfontLoad ==
    /\ ctl = "sfload"
    /\ IF SfLoad(filename) = "Ok"
       THEN /\ fonts' = fonts \cup {[id |-> next_font, file |-> filename]}
            /\ next_font' = next_font + 1
            /\ sfont_id' = next_font
            /\ presets_data' = Probe(filename)
            /\ ret' = [op |-> "load_sfont", res |-> "Ok"]
       ELSE /\ ret' = [op |-> "load_sfont", res |-> "Err"]
            /\ UNCHANGED <<fonts, next_font, sfont_id, presets_data>>
    /\ ctl' = "idle"
    /\ lock' = "free"
    /\ filename' = ""
    /\ UNCHANGED <<playing, apc, poisoned, queue, applied, engine, drain_start,
                   drained, sent_at_drain_end, piano, source_vars, send_failed,
                   new_input, program, gain, output_vars>>

\* Piano::get_active_preset: synth.get_program(0) under the lock.
GetActivePreset ==
    /\ piano = "alive"
    /\ ctl = "idle"
    /\ lock = "free"
    /\ ctl' = ControlLock
    /\ IF poisoned
       THEN UNCHANGED ret
       ELSE ret' = [op |-> "get_active_preset", res |-> "Ok", preset |-> program]
    /\ UNCHANGED <<playing, audio_vars, queue, piano, source_vars,
                   send_failed, new_input, bank_vars, gain, output_vars>>

\* A set_active_preset that locks the synth before it looks at sfont_id.
NeedsLock_Always(id) == TRUE

\* Whether set_active_preset goes on to lock the synth: the `?` on
\* self.sfont_id.context("no active SoundFont") returns before the lock.
NeedsLock(id) == id # 0

\* Piano::set_active_preset
SetActivePreset(preset) ==
    /\ piano = "alive"
    /\ ctl = "idle"
    /\ IF ~NeedsLock(sfont_id)
       THEN /\ ret' = [op |-> "set_active_preset", res |-> "no active SoundFont"]
            /\ UNCHANGED <<ctl, program>>
       ELSE /\ lock = "free"
            /\ ctl' = ControlLock
            /\ IF poisoned
               THEN UNCHANGED <<ret, program>>
               ELSE LET res == ProgramSelect(fonts, sfont_id, preset) IN
                       /\ program' = IF res = "Ok" THEN preset ELSE program
                       /\ ret' = [op |-> "set_active_preset", res |-> res]
    /\ UNCHANGED <<playing, audio_vars, queue, piano, source_vars,
                   send_failed, new_input, filename, sfont_id, presets_data,
                   fonts, next_font, gain, output_vars>>

BankNext ==
    \/ \E g \in Gains : SetGain(g)
    \/ \E f \in SoundFonts : LoadSfontLock(f)
    \/ LoadSfontUnload
    \/ LoadSfontLoad
    \/ GetActivePreset
    \/ \E preset \in PresetArgs : SetActivePreset(preset)

\* The life of the pipeline, from construction to teardown, with one kind of
\* raw message for each way through the MIDI callback (enqueued, dropped,
\* not parsed) and one key message.
EventData == {"NoteOn", "SysEx", "malformed"}

EventNext ==
    \/ CallbackInvoke \/ CallbackLock \/ DrainOne \/ DrainEnd \/ Render
    \/ Play \/ Pause
    \/ \E s \in Sources, data \in EventData : MidiSend(s, data)
    \/ UiSend("KeyNoteOn")
    \/ \E k \in {"midi", "ui"} : SetInputConnect(k)
    \/ SetInputReplace
    \/ DropOutput \/ DropInput

EventSpec == Init /\ [][EventNext]_vars

\* The same with well-formed note-on messages alone.
FairNext ==
    \/ CallbackInvoke \/ CallbackLock \/ DrainOne \/ DrainEnd \/ Render
    \/ Play \/ Pause
    \/ \E s \in Sources : MidiSend(s, "NoteOn")
    \/ UiSend("KeyNoteOn")
    \/ \E k \in {"midi", "ui"} : SetInputConnect(k)
    \/ SetInputReplace
    \/ DropOutput \/ DropInput

\* The device invokes the callback period after period while the stream
\* plays, and a callback that runs is never left unfinished; nothing obliges
\* the control thread or a source to act.
AudioStep == CallbackInvoke \/ CallbackLock \/ DrainOne \/ DrainEnd \/ Render

FairSpec == Init /\ [][FairNext]_vars /\ WF_vars(AudioStep)

\* The raw messages that end up in the channel.
Enqueued ==
    {data \in RawData :
        /\ TryFrom(data).res = "Ok"
        /\ DropUnownedSysex(TryFrom(data).variant) # "None"}

\* The sources, every message they enqueue, and the callback that drains them.
DrainNext ==
    \/ CallbackInvoke \/ CallbackLock \/ DrainOne \/ DrainEnd \/ Render
    \/ Play \/ Pause
    \/ \E s \in Sources, data \in Enqueued : MidiSend(s, data)
    \/ \E key \in KeyMessages : UiSend(key)
    \/ \E k \in {"midi", "ui"} : SetInputConnect(k)
    \/ SetInputReplace

DrainSpec == Init /\ [][DrainNext]_vars

\* Synth::send_midi_message called on the synth directly, one message after
\* the other, with any variant.
SynthSend(variant) ==
    /\ piano = "alive"
    /\ ctl = "idle"
    /\ lock = "free"
    /\ LET r == SendMidiMessage([chan |-> engine, program |-> program], variant)
       IN  /\ engine' = r.state.chan
           /\ program' = r.state.program
           /\ ret' = [op |-> "send_midi_message", res |-> r.res,
                      variant |-> variant]
    /\ UNCHANGED <<playing, apc, lock, poisoned, queue, applied, drain_start,
                   drained, sent_at_drain_end, piano, source_vars, send_failed,
                   ctl, new_input, filename, sfont_id, presets_data, fonts,
                   next_font, gain, output_vars>>

SynthSpec == Init /\ [][\E variant \in Variants : SynthSend(variant)]_vars

\* Construction on any device, and the stream of the Piano it yields.
ConfigSpec == ConfigInit /\ [][AudioOutputNew \/ Play \/ Pause]_vars

Next ==
    \/ EventNext \/ BankNext
    \/ \E s \in Sources, data \in RawData : MidiSend(s, data)
    \/ \E key \in KeyMessages : UiSend(key)

Spec == Init /\ [][Next]_vars

\* The callback of the Piano with its bank operations and no input attached.
BankSpec ==
    Init /\ [][BankNext \/ CallbackInvoke \/ CallbackLock \/ DrainEnd \/ Render
                \/ Play \/ Pause]_vars

\* The control thread alone: the UI keyboard as the input, the gain and the
\* banks, with the audio callback running beside it.
CommandNext ==
    \/ CallbackInvoke \/ CallbackLock \/ DrainOne \/ DrainEnd \/ Render
    \/ Play \/ Pause
    \/ UiSend("KeyNoteOn")
    \/ SetInputConnect("ui")
    \/ SetInputReplace
    \/ \E g \in Gains : SetGain(g)
    \/ \E f \in SoundFonts : LoadSfontLock(f)
    \/ LoadSfontUnload
    \/ LoadSfontLoad

CommandSpec == Init /\ [][CommandNext]_vars

\* A thread that holds the mutex runs on to the end of its critical section,
\* and a thread blocked in lock() gets the mutex at one of its releases.
LockSpec ==
    /\ BankSpec
    /\ WF_vars(DrainEnd \/ Render)
    /\ WF_vars(LoadSfontUnload \/ LoadSfontLoad)
    /\ SF_vars(CallbackLock)

(* ------------------------------ claims --------------------------------- *)
\* The events of source s the synth has been given, in the order it got them.
AppliedOf(s) == SelectSeq(applied, LAMBDA m : m.src = s)

\* C1: for every producer, the events of that producer applied to the synth
\* are a prefix of the sequence it sent (its events number 1, 2, ... in send
\* order): none is reordered, duplicated or skipped.
C1_ProducerOrder ==
    \A s \in Sources :
        /\ Len(AppliedOf(s)) <= sent[s]
        /\ \A i \in 1..Len(AppliedOf(s)) : AppliedOf(s)[i].n = i

\* Two producers' events were applied interleaved, over more than one drain.
C1_Witness ==
    /\ Len(applied) = 3
    /\ applied[1].src = 1 /\ applied[2].src = 2 /\ applied[3].src = 1
    /\ drained = 1

\* Every event enqueued so far has been applied.
AllApplied == Len(applied) = TotalSent

\* An event leaves the channel only to be applied, or with the channel itself
\* when the output stream is dropped.
NoEventDiscarded ==
    [][Len(queue') < Len(queue) =>
          \/ queue' = Tail(queue) /\ applied' = Append(applied, Head(queue))
          \/ piano' # "alive"]_vars

C3_LatencyOnePeriod ==
    apc = "render" => Len(applied) >= sent_at_drain_end

\* A later invocation is about to render, having applied an event that was
\* enqueued after the previous invocation's drain.
C3_Witness ==
    /\ apc = "render"
    /\ drained >= 1
    /\ Len(applied) > drained

\* C4 as stated: the drain never waits, and one invocation applies no more
\* events than were queued when its drain started.
C4_Original ==
    /\ apc = "drain" => ENABLED (DrainOne \/ DrainEnd)
    /\ drained <= drain_start

\* C4, amended: an invocation drains, then renders one block, then returns;
\* the drain never waits on an empty channel; it ends at the first poll that
\* finds the channel empty, having applied every event queued when it started
\* and those that arrived while it ran.
C4_DrainThenRender ==
    /\ [](apc = "drain" => ENABLED (DrainOne \/ DrainEnd))
    /\ [](apc = "render" => drained >= drain_start)
    /\ [][/\ apc = "drain" => apc' \in {"drain", "render"}
          /\ apc' = "render" => apc \in {"drain", "render"}
          /\ (apc = "render" /\ apc' # "render") => apc' \in {"idle", "dead"}
          /\ (apc = "drain" /\ apc' = "render") => (queue = <<>> /\ applied' = applied)]_vars

\* An invocation reached its render step after applying more events than
\* its drain found queued.
C4_Witness ==
    /\ apc = "render"
    /\ drained > drain_start

\* C5 as stated: at most one source is live at any time, and nothing of a
\* source that has been replaced reaches the synth.
C5_Original ==
    /\ [](Cardinality(live) <= 1)
    /\ [][\A s \in Connected \ live : AppliedOf(s)' = AppliedOf(s)]_vars

\* C5, amended: outside a set_input call the only live source is the attached
\* one; inside it the new source is connected before the old handle is
\* dropped, so both are live until the replace; a source whose handle has been
\* dropped enqueues nothing more (its Weak handle does not upgrade); what it
\* had enqueued before is still applied.
C5_OneLiveSource ==
    /\ [](live \subseteq (IF ctl = "replace" THEN {input, new_input} ELSE {input}))
    /\ [](Upgrade(keyboard_input, live) # 0 => keyboard_input \in {input, new_input})
    /\ [][\A s \in Connected \ live : sent'[s] = sent[s]]_vars

\* The UI keyboard, having sent events, was replaced by a second source.
C5_Witness ==
    \E s \in Connected :
        /\ kind[s] = "ui" /\ keyboard_input = s
        /\ s \notin live
        /\ sent[s] > 0
        /\ input \notin {0, s}
        /\ ctl = "idle" /\ piano = "alive"

\* The (bank, num) pairs of the descriptors the Piano exposes.
DescriptorPairs == {<<d.bank, d.num>> : d \in presets_data}

\* C6: between calls, the descriptors are presets of the bank recorded as
\* active, the engine holds at most one bank, and there are no descriptors
\* while no bank is active.
C6_DescriptorsOfActiveBank ==
    ctl = "idle" =>
        /\ Cardinality(fonts) <= 1
        /\ IF sfont_id = 0
           THEN presets_data = {}
           ELSE /\ \E r \in fonts : r.id = sfont_id
                /\ presets_data \subseteq FilePresets(FontFile(fonts, sfont_id))

\* C7: when load_sfont has returned an error, no font id is recorded and the
\* engine holds no bank.
C7_FailedLoadLeavesNoBank ==
    (ctl = "idle" /\ ret.op = "load_sfont" /\ ret.res = "Err") =>
        (sfont_id = 0 /\ fonts = {})

\* C8: set_active_preset with a pair that is not among the descriptors returns
\* an error and leaves the active preset as it was.
C8_UnknownPresetRejected ==
    [][\A preset \in PresetArgs :
          (SetActivePreset(preset) /\ preset \notin DescriptorPairs /\ ctl' = "idle") =>
              (ret'.res # "Ok" /\ program' = program)]_vars

\* C9: while no bank is active, set_active_preset can run whoever holds the
\* synth lock, returns the no-active-bank error for every argument, and
\* changes neither the lock nor the engine.
C9_NoActiveBank ==
    /\ [](( sfont_id = 0 /\ ctl = "idle" /\ piano = "alive") =>
            \A preset \in PresetArgs : ENABLED SetActivePreset(preset))
    /\ [][\A preset \in PresetArgs :
             (sfont_id = 0 /\ SetActivePreset(preset)) =>
                 /\ ret' = [op |-> "set_active_preset", res |-> "no active SoundFont"]
                 /\ UNCHANGED <<lock, poisoned, ctl, fonts, next_font, program, gain>>]_vars

\* The call failed for want of a bank, after a load had left none, while the
\* audio callback held the lock.
C9_Witness ==
    /\ ret = [op |-> "set_active_preset", res |-> "no active SoundFont"]
    /\ sfont_id = 0
    /\ next_font > 1
    /\ lock = "audio"

\* C10: the audio callback never terminates on a failure.
C10_CallbackNeverDies == apc # "dead"

\* C11: the audio callback never waits for the synth lock while the control
\* call that holds it is inside the file load (synth.sfload).
C11_NoFileLoadUnderLock ==
    ~(apc = "lock" /\ lock = "control" /\ ctl = "sfload")

\* C12: a malformed raw message handed to a MIDI source's callback enqueues
\* nothing, raises no failure, and leaves the callback able to deliver the
\* messages that follow.
C12_MalformedDropped ==
    [][\A s \in Sources :
          MidiSend(s, "malformed") =>
              /\ queue' = queue
              /\ send_failed' = send_failed
              /\ parse_failed' = parse_failed]_vars

\* The events of the UI keyboard (the control thread's own) still in the channel.
UiQueued == {i \in 1..Len(queue) : kind[queue[i].src] = "ui"}

\* C13 as stated: when a gain change or a bank change of the control thread
\* takes effect on the engine, every event the same thread enqueued before it
\* has been applied.
C13_Original ==
    [][(gain' # gain \/ fonts' # fonts) => UiQueued = {}]_vars

\* C13, amended: the control thread's events are applied in the order it
\* sent them; set_gain and load_sfont do not go through the channel: a
\* set_gain call sets the engine's gain before it returns and a load_sfont
\* call changes the engine's banks before it returns, whatever the channel
\* holds, and neither applies nor removes a queued event.
C13_CommandsTakeEffectAtCall ==
    [][/\ \A g \in Gains :
             (SetGain(g) /\ ctl' = "idle") =>
                 (gain' = g /\ queue' = queue /\ applied' = applied)
       /\ (LoadSfontLoad /\ ret'.res = "Ok") =>
             /\ sfont_id' # 0
             /\ \E r \in fonts' : r.id = sfont_id' /\ r.file = filename
             /\ queue' = queue /\ applied' = applied
       /\ \A s \in Sources :
             kind[s] = "ui" =>
                 \/ AppliedOf(s)' = AppliedOf(s)
                 \/ /\ Len(AppliedOf(s)') = Len(AppliedOf(s)) + 1
                    /\ AppliedOf(s)'[Len(AppliedOf(s)')].n = Len(AppliedOf(s)')]_vars

\* A set_gain call has changed the gain while an event the control thread
\* sent before it waits in the channel, no callback having drained it.
C13_Witness ==
    /\ UiQueued # {}
    /\ sent_at_drain_end = 0 /\ apc = "idle" /\ applied = <<>>
    /\ gain = 5
    /\ ret = [op |-> "set_gain", res |-> "Ok"]
    /\ ctl = "idle"

\* The single-threaded harness: a freshly constructed engine given the events
\* one by one, in order.
RECURSIVE Harness(_)
Harness(events) ==
    IF events = <<>>
    THEN [chan |-> FreshChannel, program |-> <<0, 0>>]
    ELSE SendMidiMessage(Harness(SubSeq(events, 1, Len(events) - 1)),
                         events[Len(events)].ev).state

PlayStep == ret'.op = "play" /\ Play
PauseStep == ret'.op = "pause" /\ Pause

Suitable ==
    {i \in 1..Len(device) :
        device[i].channels = 2 /\ device[i].sample_format = "F32"}

\* C16: once construction has run, if no supported configuration has 2
\* channels and F32 samples it has failed and no synth exists; otherwise the
\* negotiated configuration is the first such one in device order, with 2
\* channels at that configuration's maximum sample rate, and the synth was
\* constructed at that sample rate.
C16_FirstStereoFloatConfig ==
    piano # "new" =>
        IF Suitable = {}
        THEN /\ ret = [op |-> "new", res |-> "Err"]
             /\ piano = "failed"
             /\ sample_rate = 0
        ELSE LET first == CHOOSE i \in Suitable : \A j \in Suitable : i <= j IN
             /\ piano = "alive"
             /\ config = [channels |-> 2,
                          sample_rate |-> device[first].max_sample_rate]
             /\ sample_rate = device[first].max_sample_rate

\* Construction succeeded on a device whose first configuration does not
\* suit and whose second does, at a maximum rate above its minimum.
C16_Witness ==
    /\ piano = "alive"
    /\ Len(device) = 2
    /\ Suitable = {2}
    /\ device[2].min_sample_rate < device[2].max_sample_rate
    /\ sample_rate = 48000

\* C17: send_midi_message given a variant without an arm of its own returns
\* Ok and leaves the engine as it was.
C17_UnhandledIgnored ==
    [][\A variant \in Unhandled :
          SynthSend(variant) =>
              /\ ret'.res = "Ok"
              /\ engine' = engine
              /\ program' = program
              /\ gain' = gain]_vars

\* A variant without an arm was given to a synth whose key was sounding, with
\* a controller and the program changed.
C17_Witness ==
    /\ ret.op = "send_midi_message"
    /\ ret.variant \in Unhandled
    /\ ret.res = "Ok"
    /\ engine.note = 1 /\ engine.cc = 1
    /\ program = <<0, 1>>

C19_FailedSetInputKeepsInput ==
    [][\A k \in {"midi", "ui"} :
          (ret'.res = "Err" /\ ctl' = "idle" /\ SetInputConnect(k)) =>
              /\ input' = input
              /\ (input' # 0) = (input # 0)
              /\ live' = live
              /\ input # 0 => input \in live'
              /\ Upgrade(keyboard_input', live') = Upgrade(keyboard_input, live)]_vars

\* A set_input call has failed while an input that has sent events was
\* attached; it still is, and live.
C19_Witness ==
    /\ ret = [op |-> "set_input", res |-> "Err"]
    /\ ctl = "idle"
    /\ input # 0
    /\ input \in live
    /\ sent[input] > 0

\* C20: no send of an attached source meets a closed channel, the teardown
\* of the Piano included.
C20_SendNeverFails == ~send_failed

====
